---- MODULE Spec2Model ----
(***************************************************************************)
(* State-machine model of the scroll-spy logic of the GitForNoob site.     *)
(*                                                                         *)
(* Spec        the reference-line SectionObserverDirective                 *)
(*             (src/convert-commands.js, lines 321-579): the               *)
(*             IntersectionObserver callback, the sectionIds effect with   *)
(*             its deferred (500 ms) observation start, the scroll         *)
(*             listener with its 50 ms timer and ngOnDestroy.              *)
(* SpecActive  findClosestSection of that directive as a pure function of  *)
(*             the id list, the visible set, the document and the          *)
(*             geometry, all drawn from bounded sets.                      *)
(*                                                                         *)
(* A DOM element is identified by its id.  debugMode is taken at its       *)
(* default (false), so createDebugLine and the console output do nothing.  *)
(***************************************************************************)
EXTENDS Integers, Sequences, FiniteSets, TLC

VARIABLES
    sectionIds,       \* value of the sectionIds input signal (a sequence of ids)
    visibleSections,  \* the Set<string> of ids recorded as intersecting
    observed,         \* targets the IntersectionObserver currently observes
    pendingObserve,   \* id lists of the setTimeout(..., 500) callbacks not yet run, oldest first
    scrollListeners,  \* number of 'scroll' listeners registered on globalThis
    scrollTimerSet,   \* scrollTimerId !== null
    throttlePending,  \* the timer named by scrollTimerId has neither run nor been cleared
    destroyed,        \* ngOnDestroy has run
    dom,              \* ids for which document.getElementById finds an element
    top,              \* getBoundingClientRect().top of the element of each id
    emitted,          \* ids passed to activeId.emit by the last step (at most one)
    lastActive,       \* the id most recently emitted before the last step, or NONE
    op,               \* the last operation that ran
    \* the scroll listener's timer on a clock of 10 ms ticks
    timerLeft,        \* ticks until the timer named by scrollTimerId expires
    waited,           \* ticks since the oldest scroll event no geometry sample has followed, or -1
    prevSample,       \* inputs and output of the previous geometry sample (at most one record)
    \* the Content component
    items,            \* paths of the text files in the items input, in traversal order
    fileContent,      \* the Map of loaded files: per path "content", "error" or NONE
    inFlight,         \* per path, the http.get requests not yet answered
    requests,         \* per path, the http.get requests issued so far
    copiedCommand,    \* the copiedCommand signal: a text or NONE
    copiedBy,         \* number of the copy whose text copiedCommand shows, 0 if none
    copies,           \* number of copyToClipboard calls so far
    clipboardPending, \* writeText promises not yet settled, oldest first
    resetTimers,      \* the setTimeout(..., 5000) callbacks not yet run, oldest first
    shownFor,         \* ticks for which copiedCommand has shown its present text
    lastClear,        \* what the last reset timer cleared (at most one record)
    \* the image zoom of the Content component
    zoomedImage,      \* the zoomedImage signal: a path or NONE
    isClosingZoom,    \* the isClosingZoom signal
    zoomTimers,       \* ticks left of the setTimeout(..., 200) callbacks not yet run, oldest first
    zoomOpened,       \* path of the last openImageZoom if closeImageZoom was not called since, else NONE
    \* the Header component and what it reads and writes
    storedTheme,      \* localStorage item 'theme': a string, or NONE for null
    prefersDark,      \* matchMedia('(prefers-color-scheme: dark)').matches
    isDarkMode,       \* the isDarkMode signal
    darkClass,        \* documentElement and body carry the class 'dark'
    metaPresent,      \* the document has a meta[name="theme-color"]
    themeColor,       \* content of that meta tag, "initial" as served
    headerLoaded,     \* ngOnInit has run since the page was loaded
    toggledTo,        \* value of the last toggleDarkMode whose stored theme is still there: "on", "off" or NONE
    themeOp,          \* the last operation on the theme
    \* the scroll-spy Sidebar component
    sidebarListening, \* scrollListener is registered on window
    rafSet,           \* rafId holds the id of a requested animation frame
    framesPending,    \* animation-frame callbacks requested and neither run nor cancelled
    lastKnownScrollPosition,
    ticking,
    activeSection,    \* the activeSection signal: an id or ""
    windowScrollY,    \* window.scrollY
    sidebarDestroyed, \* Sidebar.ngOnDestroy has run
    processed,        \* scroll positions handleScroll was run with by the last step (at most one)
    sectionSet,       \* activeSection.set calls of the last step as <<from, to>> (at most one)
    sidebarOp,        \* the last operation on the Sidebar
    \* the reassign-ids script
    data,             \* the content tree: the id of the item at each path of child indices
    original,         \* the tree as read from the file
    idCounter,
    treeOp            \* the last step of the script

directiveVars == <<sectionIds, visibleSections, observed, pendingObserve,
                   scrollListeners, scrollTimerSet, throttlePending, destroyed,
                   dom, top, emitted, lastActive, op>>

clockVars == <<timerLeft, waited, prevSample>>

contentVars == <<items, fileContent, inFlight, requests, copiedCommand, copiedBy,
                 copies, clipboardPending, resetTimers, shownFor, lastClear>>

zoomVars == <<zoomedImage, isClosingZoom, zoomTimers, zoomOpened>>

\* The components next to the directive and the Content loader.
themeVars == <<storedTheme, prefersDark, isDarkMode, darkClass, metaPresent,
               themeColor, headerLoaded, toggledTo, themeOp>>

sidebarVars == <<sidebarListening, rafSet, framesPending, lastKnownScrollPosition,
                 ticking, activeSection, windowScrollY, sidebarDestroyed, processed,
                 sectionSet, sidebarOp>>

treeVars == <<data, original, idCounter, treeOp>>

pageVars == <<zoomVars, themeVars, sidebarVars, treeVars>>

vars == <<directiveVars, clockVars, contentVars, pageVars>>

----------------------------------------------------------------------------
(* Inputs and bounds *)

NONE == "none"

Ids == {"a", "b", "c"}

\* Id lists the host supplies to the running directive.
ConfigLists == {<< >>, <<"b", "a">>, <<"b", "c">>}

\* Most non-empty sectionIds changes in one run (each starts one 500 ms timer
\* and, when it fires, registers one more scroll listener).
MaxObserveRuns == 2

\* Longest id list drawn for the pure function.
MaxLen == 3

\* Longest time, in ticks, the clock follows a scroll event that no geometry
\* sample has followed yet.
MaxWait == 8

\* Paths of text files, and the item trees drawn for the items input (a path
\* may occur under several items).
Paths == {"p", "q"}
PathLists == {<< >>, <<"p">>, <<"q", "p">>, <<"p", "q", "p">>}

\* At most this many http.get requests per path.
MaxRequests == 3

\* Texts copied, and at most this many copyToClipboard calls.
Texts == {"t1", "t2"}
MaxCopies == 3

\* Images zoomed, and at most this many closeImageZoom timers pending at once.
Images == {"i1", "i2"}
MaxZoomTimers == 3

\* Top-edge distances drawn for the pure function.
Tops == {10, 130, 166, 300}

\* Document offsets of the three sections and the scroll offsets sampled.
DocTop == [i \in Ids |-> CASE i = "a" -> 148 [] i = "b" -> 184 [] OTHER -> 300]
ScrollYs == {0, 18, 152}
Layout(y) == [i \in Ids |-> DocTop[i] - y]

----------------------------------------------------------------------------
(* Helpers *)

Range(s) == {s[i] : i \in 1..Len(s)}

Abs(x) == IF x < 0 THEN -x ELSE x

\* Sequences over Ids without repetition, up to length n.
InjSeqs(n) ==
    {s \in UNION {[1..k -> Ids] : k \in 0..n} :
        \A i, j \in 1..Len(s) : i # j => s[i] # s[j]}

----------------------------------------------------------------------------
(* findClosestSection *)

referenceLineY == 148

\* Variant: the visibleSections.has filter is left out.
SectionsInViewAnyVisibility(ids, vis, d) ==
    SelectSeq(ids, LAMBDA id : id \in d)

\* Variant: the null check on getElementById is left out.
SectionsInViewAnyElement(ids, vis, d) ==
    SelectSeq(ids, LAMBDA id : id \in vis)

\* ids.filter(visibleSections.has).map(getElementById ...).filter(item !== null)
SectionsInView(ids, vis, d) ==
    SelectSeq(ids, LAMBDA id : id \in vis /\ id \in d)

\* Variant: the distances are compared without Math.abs.
RECURSIVE ReduceSigned(_, _, _)
ReduceSigned(s, closest, t) ==
    IF s = << >> THEN closest
    ELSE LET current == Head(s)
             closestDistance == t[closest] - referenceLineY
             currentDistance == t[current] - referenceLineY
         IN ReduceSigned(Tail(s), IF currentDistance < closestDistance
                                  THEN current ELSE closest, t)

\* Variant: <= in place of <, so the last of several equidistant sections wins.
RECURSIVE ReduceLastWins(_, _, _)
ReduceLastWins(s, closest, t) ==
    IF s = << >> THEN closest
    ELSE LET current == Head(s)
             closestDistance == Abs(t[closest] - referenceLineY)
             currentDistance == Abs(t[current] - referenceLineY)
         IN ReduceLastWins(Tail(s), IF currentDistance <= closestDistance
                                    THEN current ELSE closest, t)

\* sectionsInView.reduce((closest, current) => ..., sectionsInView[0])
RECURSIVE Reduce(_, _, _)
Reduce(s, closest, t) ==
    IF s = << >> THEN closest
    ELSE LET current == Head(s)
             closestDistance == Abs(t[closest] - referenceLineY)
             currentDistance == Abs(t[current] - referenceLineY)
         IN Reduce(Tail(s), IF currentDistance < closestDistance
                            THEN current ELSE closest, t)

findClosestSection(ids, vis, d, t) ==
    LET sectionsInView == SectionsInView(ids, vis, d)
    IN IF Len(sectionsInView) = 0 THEN NONE
       ELSE Reduce(sectionsInView, sectionsInView[1], t)

\* What the subscriber holds once the last step's emission is delivered.
Held == IF emitted # << >> THEN emitted[Len(emitted)] ELSE lastActive

\* Variant: with nothing visible, the first configured id is emitted.
emitActiveSectionFallback(ids, vis, d, t) ==
    IF Cardinality(vis) = 0
    THEN (IF Len(ids) > 0 THEN <<ids[1]>> ELSE << >>)
    ELSE LET activeId == findClosestSection(ids, vis, d, t)
         IN IF activeId # NONE THEN <<activeId>> ELSE << >>

\* Variant: an id equal to the one emitted last is not emitted again.
emitActiveSectionDistinct(ids, vis, d, t) ==
    IF Cardinality(vis) = 0 THEN << >>
    ELSE LET activeId == findClosestSection(ids, vis, d, t)
         IN IF activeId # NONE /\ activeId # Held THEN <<activeId>> ELSE << >>

\* The ids emitActiveSection emits: none when nothing is visible or nothing is found.
emitActiveSection(ids, vis, d, t) ==
    IF Cardinality(vis) = 0 THEN << >>
    ELSE LET activeId == findClosestSection(ids, vis, d, t)
         IN IF activeId # NONE THEN <<activeId>> ELSE << >>

----------------------------------------------------------------------------
(* The directive *)

\* No scroll event has happened yet.
ClockIdle ==
    /\ timerLeft = 0
    /\ waited = -1
    /\ prevSample = << >>

\* The Content component after construction: no items, nothing loaded, nothing copied.
ContentIdle ==
    /\ items = << >>
    /\ fileContent = [path \in Paths |-> NONE]
    /\ inFlight = [path \in Paths |-> 0]
    /\ requests = [path \in Paths |-> 0]
    /\ copiedCommand = NONE
    /\ copiedBy = 0
    /\ copies = 0
    /\ clipboardPending = << >>
    /\ resetTimers = << >>
    /\ shownFor = 0
    /\ lastClear = << >>

\* No image is zoomed.
ZoomIdle ==
    /\ zoomedImage = NONE
    /\ isClosingZoom = FALSE
    /\ zoomTimers = << >>
    /\ zoomOpened = NONE

\* The page as served, before Header.ngOnInit, with nothing stored.
ThemeIdle ==
    /\ storedTheme = NONE
    /\ prefersDark = FALSE
    /\ isDarkMode = FALSE
    /\ darkClass = FALSE
    /\ metaPresent = FALSE
    /\ themeColor = "initial"
    /\ headerLoaded = FALSE
    /\ toggledTo = NONE
    /\ themeOp = "init"

\* The Sidebar before ngOnInit.
SidebarIdle ==
    /\ sidebarListening = FALSE
    /\ rafSet = FALSE
    /\ framesPending = 0
    /\ lastKnownScrollPosition = 0
    /\ ticking = FALSE
    /\ activeSection = ""
    /\ windowScrollY = 0
    /\ sidebarDestroyed = FALSE
    /\ processed = << >>
    /\ sectionSet = << >>
    /\ sidebarOp = "init"

\* The script has not read a tree.
TreeIdle ==
    /\ data = [path \in {} |-> 0]
    /\ original = [path \in {} |-> 0]
    /\ idCounter = 1
    /\ treeOp = "init"

PageIdle ==
    /\ ZoomIdle
    /\ ThemeIdle
    /\ SidebarIdle
    /\ TreeIdle

Init ==
    /\ sectionIds = << >>
    /\ visibleSections = {}
    /\ observed = {}
    /\ pendingObserve = << >>
    /\ scrollListeners = 0
    /\ scrollTimerSet = FALSE
    /\ throttlePending = FALSE
    /\ destroyed = FALSE
    /\ dom \in SUBSET Ids
    /\ top = Layout(0)
    /\ emitted = << >>
    /\ lastActive = NONE
    /\ op = "init"
    /\ ClockIdle
    /\ ContentIdle
    /\ PageIdle

\* Variant: the empty list is not returned on; it disconnects and clears too.
EffectNoEmptyCheck(ids) ==
    /\ ~destroyed
    /\ Len(ids) = 0 \/ scrollListeners + Len(pendingObserve) < MaxObserveRuns
    /\ sectionIds' = ids
    /\ observed' = {}
    /\ visibleSections' = {}
    /\ pendingObserve' = IF Len(ids) = 0 THEN pendingObserve ELSE Append(pendingObserve, ids)
    /\ emitted' = << >>
    /\ lastActive' = Held
    /\ op' = "effect"
    /\ UNCHANGED <<scrollListeners, scrollTimerSet, throttlePending, destroyed, dom, top>>

\* effect(() => { const ids = this.sectionIds(); ... }): runs on every change
\* of the sectionIds input while the directive is alive.  It leaves the 500 ms
\* timer of an earlier run pending.
Effect(ids) ==
    /\ ~destroyed
    /\ Len(ids) = 0 \/ scrollListeners + Len(pendingObserve) < MaxObserveRuns
    /\ sectionIds' = ids
    /\ IF Len(ids) = 0
       THEN UNCHANGED <<observed, visibleSections, pendingObserve>>
       ELSE /\ observed' = {}
            /\ visibleSections' = {}
            /\ pendingObserve' = Append(pendingObserve, ids)
    /\ emitted' = << >>
    /\ lastActive' = Held
    /\ op' = "effect"
    /\ UNCHANGED <<scrollListeners, scrollTimerSet, throttlePending, destroyed, dom, top>>

\* The oldest 500 ms timer runs observeSections(ids).
observeSections ==
    /\ pendingObserve # << >>
    /\ LET ids == Head(pendingObserve)
       IN observed' = observed \cup {id \in Range(ids) : id \in dom}
    /\ pendingObserve' = Tail(pendingObserve)
    /\ scrollListeners' = scrollListeners + 1
    /\ emitted' = << >>
    /\ lastActive' = Held
    /\ op' = "observeSections"
    /\ UNCHANGED <<sectionIds, visibleSections, scrollTimerSet, throttlePending,
                   destroyed, dom, top>>

\* Variant: emitActiveSection runs before the entries are applied.
ObserverCallbackEmitFirst(entries) ==
    /\ DOMAIN entries # {}
    /\ DOMAIN entries \subseteq observed
    /\ visibleSections' = (visibleSections \ {id \in DOMAIN entries : ~entries[id]})
                              \cup {id \in DOMAIN entries : entries[id]}
    /\ emitted' = emitActiveSection(sectionIds, visibleSections, dom, top)
    /\ lastActive' = Held
    /\ op' = "observerCallback"
    /\ UNCHANGED <<sectionIds, observed, pendingObserve, scrollListeners,
                   scrollTimerSet, throttlePending, destroyed, dom, top>>

\* The IntersectionObserver callback with a batch of entries: entries[id] is
\* isIntersecting of the entry whose target has that id.
ObserverCallback(entries) ==
    /\ DOMAIN entries # {}
    /\ DOMAIN entries \subseteq observed
    /\ visibleSections' = (visibleSections \ {id \in DOMAIN entries : ~entries[id]})
                              \cup {id \in DOMAIN entries : entries[id]}
    /\ emitted' = emitActiveSection(sectionIds, visibleSections', dom, top)
    /\ lastActive' = Held
    /\ op' = "observerCallback"
    /\ UNCHANGED <<sectionIds, observed, pendingObserve, scrollListeners,
                   scrollTimerSet, throttlePending, destroyed, dom, top>>

\* A scroll event moves the page to offset y (a horizontal scroll leaves the
\* tops as they are) and runs every registered listener: each clears the timer
\* named by scrollTimerId and starts a new 50 ms timer.
Scroll(y) ==
    /\ top' = Layout(y)
    /\ IF scrollListeners > 0
       THEN scrollTimerSet' = TRUE /\ throttlePending' = TRUE
       ELSE UNCHANGED <<scrollTimerSet, throttlePending>>
    /\ emitted' = << >>
    /\ lastActive' = Held
    /\ op' = "scroll"
    /\ UNCHANGED <<sectionIds, visibleSections, observed, pendingObserve,
                   scrollListeners, destroyed, dom>>

\* The 50 ms timer runs emitActiveSection (a geometry sample).
ScrollTimer ==
    /\ throttlePending
    /\ throttlePending' = FALSE
    /\ emitted' = emitActiveSection(sectionIds, visibleSections, dom, top)
    /\ lastActive' = Held
    /\ op' = "scrollTimer"
    /\ UNCHANGED <<sectionIds, visibleSections, observed, pendingObserve,
                   scrollListeners, scrollTimerSet, destroyed, dom, top>>

ngOnDestroy ==
    /\ ~destroyed
    /\ destroyed' = TRUE
    /\ observed' = {}
    /\ throttlePending' = FALSE
    /\ emitted' = << >>
    /\ lastActive' = Held
    /\ op' = "ngOnDestroy"
    /\ UNCHANGED <<sectionIds, visibleSections, pendingObserve, scrollListeners,
                   scrollTimerSet, dom, top>>

\* The host renders or removes the element of one id.
DomChange(id) ==
    /\ dom' = IF id \in dom THEN dom \ {id} ELSE dom \cup {id}
    /\ emitted' = << >>
    /\ lastActive' = Held
    /\ op' = "dom"
    /\ UNCHANGED <<sectionIds, visibleSections, observed, pendingObserve,
                   scrollListeners, scrollTimerSet, throttlePending, destroyed, top>>

Batches == UNION {[S -> BOOLEAN] : S \in SUBSET Ids}

Next ==
    \/ (\E ids \in ConfigLists : Effect(ids)) /\ UNCHANGED <<clockVars, contentVars, pageVars>>
    \/ observeSections /\ UNCHANGED <<clockVars, contentVars, pageVars>>
    \/ (\E entries \in Batches : ObserverCallback(entries)) /\ UNCHANGED <<clockVars, contentVars, pageVars>>
    \/ (\E y \in ScrollYs : Scroll(y)) /\ UNCHANGED <<clockVars, contentVars, pageVars>>
    \/ ScrollTimer /\ UNCHANGED <<clockVars, contentVars, pageVars>>
    \/ ngOnDestroy /\ UNCHANGED <<clockVars, contentVars, pageVars>>
    \/ (\E id \in Ids : DomChange(id)) /\ UNCHANGED <<clockVars, contentVars, pageVars>>

Spec == Init /\ [][Next]_vars

----------------------------------------------------------------------------
(* The scroll listener and its timer on a clock *)

\* setTimeout(..., 50), in ticks of 10 ms.
ScrollDelayTicks == 5

\* The directive once observeSections has run for a non-empty id list: one
\* scroll listener is registered and some observed sections are recorded visible.
InitScroll ==
    /\ sectionIds \in ConfigLists \ {<< >>}
    /\ dom \in SUBSET Ids
    /\ observed = {id \in Range(sectionIds) : id \in dom}
    /\ visibleSections \in SUBSET observed
    /\ pendingObserve = << >>
    /\ scrollListeners = 1
    /\ scrollTimerSet = FALSE
    /\ throttlePending = FALSE
    /\ destroyed = FALSE
    /\ top = Layout(0)
    /\ emitted = << >>
    /\ lastActive = NONE
    /\ op = "init"
    /\ ClockIdle
    /\ ContentIdle
    /\ PageIdle

\* A scroll event: clearTimeout(scrollTimerId), then a new timer of the full delay.
TimedScroll(y) ==
    /\ Scroll(y)
    /\ timerLeft' = IF scrollListeners > 0 THEN ScrollDelayTicks ELSE timerLeft
    /\ waited' = IF scrollListeners > 0 /\ waited = -1 THEN 0 ELSE waited
    /\ UNCHANGED prevSample

\* 10 ms pass; a timer that has expired runs before more time passes.
Tick ==
    /\ waited # -1
    /\ waited < MaxWait
    /\ ~(throttlePending /\ timerLeft = 0)
    /\ timerLeft' = IF throttlePending THEN timerLeft - 1 ELSE timerLeft
    /\ waited' = waited + 1
    /\ emitted' = << >>
    /\ lastActive' = Held
    /\ op' = "tick"
    /\ UNCHANGED <<sectionIds, visibleSections, observed, pendingObserve,
                   scrollListeners, scrollTimerSet, throttlePending, destroyed,
                   dom, top, prevSample>>

\* The expired timer runs emitActiveSection.
TimedSample ==
    /\ timerLeft = 0
    /\ ScrollTimer
    /\ waited' = -1
    /\ prevSample' = <<[ids |-> sectionIds, vis |-> visibleSections, dom |-> dom,
                        top |-> top, out |-> emitted']>>
    /\ UNCHANGED timerLeft

NextScroll ==
    \/ (\E y \in ScrollYs : TimedScroll(y)) /\ UNCHANGED <<contentVars, pageVars>>
    \/ Tick /\ UNCHANGED <<contentVars, pageVars>>
    \/ TimedSample /\ UNCHANGED <<contentVars, pageVars>>
    \/ (\E entries \in Batches : ObserverCallback(entries)) /\ UNCHANGED <<clockVars, contentVars, pageVars>>

SpecScroll == InitScroll /\ [][NextScroll]_vars

\* The IntersectionObserver callback alone, between scroll events and changes
\* of the document.
NextVisibility ==
    \/ (\E entries \in Batches : ObserverCallback(entries)) /\ UNCHANGED <<clockVars, contentVars, pageVars>>
    \/ (\E y \in ScrollYs : Scroll(y)) /\ UNCHANGED <<clockVars, contentVars, pageVars>>
    \/ (\E id \in Ids : DomChange(id)) /\ UNCHANGED <<clockVars, contentVars, pageVars>>

SpecVisibility == InitScroll /\ [][NextVisibility]_vars

----------------------------------------------------------------------------
(* findClosestSection as a pure function *)

InitActive ==
    /\ sectionIds \in InjSeqs(MaxLen)
    /\ visibleSections \in SUBSET Ids
    /\ dom \in SUBSET Ids
    /\ top \in [Ids -> Tops]
    /\ observed = {}
    /\ pendingObserve = << >>
    /\ scrollListeners = 0
    /\ scrollTimerSet = FALSE
    /\ throttlePending = FALSE
    /\ destroyed = FALSE
    /\ emitted = << >>
    /\ lastActive = NONE
    /\ op = "init"
    /\ ClockIdle
    /\ ContentIdle
    /\ PageIdle

\* One recomputation over the drawn inputs.
ComputeActive ==
    /\ op = "init"
    /\ emitted' = emitActiveSection(sectionIds, visibleSections, dom, top)
    /\ op' = "computeActive"
    /\ UNCHANGED <<sectionIds, visibleSections, observed, pendingObserve,
                   scrollListeners, scrollTimerSet, throttlePending, destroyed,
                   dom, top, lastActive>>

NextActive == ComputeActive /\ UNCHANGED <<clockVars, contentVars, pageVars>>

SpecActive == InitActive /\ [][NextActive]_vars

----------------------------------------------------------------------------
(* The header-offset variant of the directive: no scroll listener, and
   findClosestSection prefers the sections near the top *)

headerOffset == 100

\* Tops around the header offset and around headerOffset + 50.
HeaderTops == {40, 90, 110, 155, 300}

\* ids.filter(visibleSections.has).map(getElementById ...).filter(item !== null)
VisibleWithPositions(ids, vis, d) ==
    SelectSeq(ids, LAMBDA id : id \in vis /\ id \in d)

\* Variant: every visible section counts as near the top.
SectionsNearTopNoFilter(positions, t) ==
    positions

\* visibleWithPositions.filter((item) => item.top <= headerOffset + 50)
SectionsNearTop(positions, t) ==
    SelectSeq(positions, LAMBDA id : t[id] <= headerOffset + 50)

\* Variant: <= in place of <, so the last of several equidistant sections wins.
RECURSIVE ReduceHeaderLastWins(_, _, _)
ReduceHeaderLastWins(s, closest, t) ==
    IF s = << >> THEN closest
    ELSE LET current == Head(s)
             closestDistance == Abs(t[closest] - headerOffset)
             currentDistance == Abs(t[current] - headerOffset)
         IN ReduceHeaderLastWins(Tail(s), IF currentDistance <= closestDistance
                                          THEN current ELSE closest, t)

\* sectionsNearTop.reduce((closest, current) => ..., sectionsNearTop[0])
RECURSIVE ReduceHeader(_, _, _)
ReduceHeader(s, closest, t) ==
    IF s = << >> THEN closest
    ELSE LET current == Head(s)
             closestDistance == Abs(t[closest] - headerOffset)
             currentDistance == Abs(t[current] - headerOffset)
         IN ReduceHeader(Tail(s), IF currentDistance < closestDistance
                                  THEN current ELSE closest, t)

findClosestSectionHeader(ids, vis, d, t) ==
    LET visibleWithPositions == VisibleWithPositions(ids, vis, d)
        sectionsNearTop == SectionsNearTop(visibleWithPositions, t)
    IN IF Len(visibleWithPositions) = 0 THEN NONE
       ELSE IF Len(sectionsNearTop) > 0
            THEN ReduceHeader(sectionsNearTop, sectionsNearTop[1], t)
            ELSE visibleWithPositions[1]

emitActiveSectionHeader(ids, vis, d, t) ==
    IF Cardinality(vis) = 0 THEN << >>
    ELSE LET activeId == findClosestSectionHeader(ids, vis, d, t)
         IN IF activeId # NONE THEN <<activeId>> ELSE << >>

InitHeaderActive ==
    /\ sectionIds \in InjSeqs(MaxLen)
    /\ visibleSections \in SUBSET Ids
    /\ dom \in SUBSET Ids
    /\ top \in [Ids -> HeaderTops]
    /\ observed = {}
    /\ pendingObserve = << >>
    /\ scrollListeners = 0
    /\ scrollTimerSet = FALSE
    /\ throttlePending = FALSE
    /\ destroyed = FALSE
    /\ emitted = << >>
    /\ lastActive = NONE
    /\ op = "init"
    /\ ClockIdle
    /\ ContentIdle
    /\ PageIdle

\* One recomputation over the drawn inputs.
ComputeHeaderActive ==
    /\ op = "init"
    /\ emitted' = emitActiveSectionHeader(sectionIds, visibleSections, dom, top)
    /\ op' = "computeHeaderActive"
    /\ UNCHANGED <<sectionIds, visibleSections, observed, pendingObserve,
                   scrollListeners, scrollTimerSet, throttlePending, destroyed,
                   dom, top, lastActive>>

NextHeaderActive == ComputeHeaderActive /\ UNCHANGED <<clockVars, contentVars, pageVars>>

SpecHeaderActive == InitHeaderActive /\ [][NextHeaderActive]_vars

\* effect(() => { const ids = this.sectionIds(); ... })
EffectHeader(ids) ==
    /\ ~destroyed
    /\ Len(ids) = 0 \/ Len(pendingObserve) < MaxObserveRuns
    /\ sectionIds' = ids
    /\ IF Len(ids) = 0
       THEN UNCHANGED <<observed, visibleSections, pendingObserve>>
       ELSE /\ observed' = {}
            /\ visibleSections' = {}
            /\ pendingObserve' = Append(pendingObserve, ids)
    /\ emitted' = << >>
    /\ lastActive' = Held
    /\ op' = "effect"
    /\ UNCHANGED <<scrollListeners, scrollTimerSet, throttlePending, destroyed, dom, top>>

\* Variant: observeSections also registers a scroll listener.
observeSectionsHeaderWithListener ==
    /\ pendingObserve # << >>
    /\ LET ids == Head(pendingObserve)
       IN observed' = observed \cup {id \in Range(ids) : id \in dom}
    /\ pendingObserve' = Tail(pendingObserve)
    /\ scrollListeners' = 1
    /\ emitted' = << >>
    /\ lastActive' = Held
    /\ op' = "observeSections"
    /\ UNCHANGED <<sectionIds, visibleSections, scrollTimerSet, throttlePending,
                   destroyed, dom, top>>

\* The oldest 500 ms timer runs observeSections(ids): it observes the elements
\* it finds and does nothing else.
observeSectionsHeader ==
    /\ pendingObserve # << >>
    /\ LET ids == Head(pendingObserve)
       IN observed' = observed \cup {id \in Range(ids) : id \in dom}
    /\ pendingObserve' = Tail(pendingObserve)
    /\ emitted' = << >>
    /\ lastActive' = Held
    /\ op' = "observeSections"
    /\ UNCHANGED <<sectionIds, visibleSections, scrollListeners, scrollTimerSet,
                   throttlePending, destroyed, dom, top>>

\* The IntersectionObserver callback with a batch of entries.
ObserverCallbackHeader(entries) ==
    /\ DOMAIN entries # {}
    /\ DOMAIN entries \subseteq observed
    /\ visibleSections' = (visibleSections \ {id \in DOMAIN entries : ~entries[id]})
                              \cup {id \in DOMAIN entries : entries[id]}
    /\ emitted' = emitActiveSectionHeader(sectionIds, visibleSections', dom, top)
    /\ lastActive' = Held
    /\ op' = "observerCallback"
    /\ UNCHANGED <<sectionIds, observed, pendingObserve, scrollListeners,
                   scrollTimerSet, throttlePending, destroyed, dom, top>>

\* ngOnDestroy() { this.observer?.disconnect(); }
ngOnDestroyHeader ==
    /\ ~destroyed
    /\ destroyed' = TRUE
    /\ observed' = {}
    /\ emitted' = << >>
    /\ lastActive' = Held
    /\ op' = "ngOnDestroy"
    /\ UNCHANGED <<sectionIds, visibleSections, pendingObserve, scrollListeners,
                   scrollTimerSet, throttlePending, dom, top>>

NextHeader ==
    \/ (\E ids \in ConfigLists : EffectHeader(ids)) /\ UNCHANGED <<clockVars, contentVars, pageVars>>
    \/ observeSectionsHeader /\ UNCHANGED <<clockVars, contentVars, pageVars>>
    \/ (\E entries \in Batches : ObserverCallbackHeader(entries)) /\ UNCHANGED <<clockVars, contentVars, pageVars>>
    \/ (\E y \in ScrollYs : Scroll(y)) /\ UNCHANGED <<clockVars, contentVars, pageVars>>
    \/ ngOnDestroyHeader /\ UNCHANGED <<clockVars, contentVars, pageVars>>
    \/ (\E id \in Ids : DomChange(id)) /\ UNCHANGED <<clockVars, contentVars, pageVars>>

SpecHeader == Init /\ [][NextHeader]_vars

----------------------------------------------------------------------------
(* The Content component: loading text files *)

\* The directive is not in use.
DirectiveIdle ==
    /\ sectionIds = << >>
    /\ visibleSections = {}
    /\ observed = {}
    /\ pendingObserve = << >>
    /\ scrollListeners = 0
    /\ scrollTimerSet = FALSE
    /\ throttlePending = FALSE
    /\ destroyed = FALSE
    /\ dom = {}
    /\ top = Layout(0)
    /\ emitted = << >>
    /\ lastActive = NONE
    /\ op = "init"

InitContent ==
    /\ DirectiveIdle
    /\ ClockIdle
    /\ ContentIdle
    /\ PageIdle

Occurrences(list, path) == Cardinality({i \in 1..Len(list) : list[i] = path})

\* loadTextFile for every occurrence of every path of the tree: the Map is
\* read at each call and changes only when a response arrives, so each
\* occurrence of a path that is not loaded issues a request.
Requested(list, path) ==
    IF fileContent[path] = NONE THEN Occurrences(list, path) ELSE 0

\* The items input changes: the effect runs loadAllTextFiles(currentItems).
loadAllTextFiles(list) ==
    /\ \A path \in Paths : requests[path] + Requested(list, path) <= MaxRequests
    /\ items' = list
    /\ inFlight' = [path \in Paths |-> inFlight[path] + Requested(list, path)]
    /\ requests' = [path \in Paths |-> requests[path] + Requested(list, path)]
    /\ UNCHANGED <<fileContent, copiedCommand, copiedBy, copies, clipboardPending,
                   resetTimers, shownFor, lastClear>>

\* The response of one request arrives: next sets the content, error sets the
\* error text.
Response(path, ok) ==
    /\ inFlight[path] > 0
    /\ inFlight' = [inFlight EXCEPT ![path] = @ - 1]
    /\ fileContent' = [fileContent EXCEPT ![path] = IF ok THEN "content" ELSE "error"]
    /\ UNCHANGED <<items, requests, copiedCommand, copiedBy, copies, clipboardPending,
                   resetTimers, shownFor, lastClear>>

NextFiles ==
    \/ (\E list \in PathLists : loadAllTextFiles(list)) /\ UNCHANGED <<directiveVars, clockVars, pageVars>>
    \/ (\E path \in Paths, ok \in BOOLEAN : Response(path, ok)) /\ UNCHANGED <<directiveVars, clockVars, pageVars>>

SpecFiles == InitContent /\ [][NextFiles]_vars

----------------------------------------------------------------------------
(* The Content component: the copied indicator, on a clock of 2500 ms ticks *)

\* setTimeout(..., 5000), in ticks of 2500 ms.
ResetDelayTicks == 2

\* copyToClipboard(text): navigator.clipboard.writeText(text) is started.
copyToClipboard(text) ==
    /\ copies < MaxCopies
    /\ copies' = copies + 1
    /\ clipboardPending' = Append(clipboardPending, [copy |-> copies + 1, text |-> text])
    /\ UNCHANGED <<items, fileContent, inFlight, requests, copiedCommand, copiedBy,
                   resetTimers, shownFor, lastClear>>

\* The oldest writeText promise is fulfilled: the then callback sets
\* copiedCommand and starts a reset timer.
WriteFulfilled ==
    /\ clipboardPending # << >>
    /\ LET write == Head(clipboardPending)
       IN /\ copiedCommand' = write.text
          /\ copiedBy' = write.copy
          /\ resetTimers' = Append(resetTimers, [copy |-> write.copy, left |-> ResetDelayTicks])
    /\ clipboardPending' = Tail(clipboardPending)
    /\ shownFor' = 0
    /\ UNCHANGED <<items, fileContent, inFlight, requests, copies, lastClear>>

\* The oldest writeText promise is rejected: there is no handler for it.
WriteRejected ==
    /\ clipboardPending # << >>
    /\ clipboardPending' = Tail(clipboardPending)
    /\ UNCHANGED <<items, fileContent, inFlight, requests, copiedCommand, copiedBy,
                   copies, resetTimers, shownFor, lastClear>>

\* 2500 ms pass; a reset timer that has expired runs before more time passes.
ContentTick ==
    /\ resetTimers # << >>
    /\ Head(resetTimers).left > 0
    /\ resetTimers' = [i \in 1..Len(resetTimers) |->
                          [resetTimers[i] EXCEPT !.left = @ - 1]]
    /\ shownFor' = IF copiedCommand # NONE /\ shownFor < ResetDelayTicks
                   THEN shownFor + 1 ELSE shownFor
    /\ UNCHANGED <<items, fileContent, inFlight, requests, copiedCommand, copiedBy,
                   copies, clipboardPending, lastClear>>

\* The oldest reset timer has expired: copiedCommand.set(null).
ResetTimer ==
    /\ resetTimers # << >>
    /\ Head(resetTimers).left = 0
    /\ copiedCommand' = NONE
    /\ copiedBy' = 0
    /\ lastClear' = IF copiedCommand # NONE
                    THEN <<[timer |-> Head(resetTimers).copy, indicator |-> copiedBy,
                            shownFor |-> shownFor]>>
                    ELSE << >>
    /\ resetTimers' = Tail(resetTimers)
    /\ shownFor' = 0
    /\ UNCHANGED <<items, fileContent, inFlight, requests, copies, clipboardPending>>

NextClipboard ==
    \/ (\E text \in Texts : copyToClipboard(text)) /\ UNCHANGED <<directiveVars, clockVars, pageVars>>
    \/ WriteFulfilled /\ UNCHANGED <<directiveVars, clockVars, pageVars>>
    \/ WriteRejected /\ UNCHANGED <<directiveVars, clockVars, pageVars>>
    \/ ContentTick /\ UNCHANGED <<directiveVars, clockVars, pageVars>>
    \/ ResetTimer /\ UNCHANGED <<directiveVars, clockVars, pageVars>>

SpecClipboard == InitContent /\ [][NextClipboard]_vars

----------------------------------------------------------------------------
(* The Content component: the image zoom, on a clock of 100 ms ticks *)

\* setTimeout(..., 200), in ticks of 100 ms.
ZoomDelayTicks == 2

\* Everything of the page but the zoom is idle.
InitZoom ==
    /\ DirectiveIdle
    /\ ClockIdle
    /\ ContentIdle
    /\ ZoomIdle
    /\ ThemeIdle
    /\ SidebarIdle
    /\ TreeIdle

openImageZoom(imagePath) ==
    /\ isClosingZoom' = FALSE
    /\ zoomedImage' = imagePath
    /\ zoomOpened' = imagePath
    /\ UNCHANGED zoomTimers

\* closeImageZoom(): sets isClosingZoom and starts a 200 ms timer.
closeImageZoom ==
    /\ Len(zoomTimers) < MaxZoomTimers
    /\ isClosingZoom' = TRUE
    /\ zoomTimers' = Append(zoomTimers, ZoomDelayTicks)
    /\ zoomOpened' = NONE
    /\ UNCHANGED zoomedImage

\* 100 ms pass; a timer that has expired runs before more time passes.
ZoomTick ==
    /\ zoomTimers # << >>
    /\ Head(zoomTimers) > 0
    /\ zoomTimers' = [i \in 1..Len(zoomTimers) |-> zoomTimers[i] - 1]
    /\ UNCHANGED <<zoomedImage, isClosingZoom, zoomOpened>>

\* The oldest 200 ms timer has expired: zoomedImage.set(null), isClosingZoom.set(false).
ZoomTimer ==
    /\ zoomTimers # << >>
    /\ Head(zoomTimers) = 0
    /\ zoomedImage' = NONE
    /\ isClosingZoom' = FALSE
    /\ zoomTimers' = Tail(zoomTimers)
    /\ UNCHANGED zoomOpened

NextZoom ==
    \/ (\E imagePath \in Images : openImageZoom(imagePath)) /\ UNCHANGED <<directiveVars, clockVars, contentVars, themeVars, sidebarVars, treeVars>>
    \/ closeImageZoom /\ UNCHANGED <<directiveVars, clockVars, contentVars, themeVars, sidebarVars, treeVars>>
    \/ ZoomTick /\ UNCHANGED <<directiveVars, clockVars, contentVars, themeVars, sidebarVars, treeVars>>
    \/ ZoomTimer /\ UNCHANGED <<directiveVars, clockVars, contentVars, themeVars, sidebarVars, treeVars>>

SpecZoom == InitZoom /\ [][NextZoom]_vars

----------------------------------------------------------------------------
(* The Header component: the theme and its persistence *)

\* What localStorage may hold under 'theme' when the page is first loaded:
\* nothing, or a string this code did not write.
ForeignThemes == {NONE, "", "system"}

\* !savedTheme: null and the empty string are falsy.
Falsy(savedTheme) == savedTheme = NONE \/ savedTheme = ""

\* newValue ? 'dark' : 'light'
StoredValue(isDark) == IF isDark THEN "dark" ELSE "light"

\* Variant: the system preference is honoured whatever is stored.
IsDarkPreferenceFirst(savedTheme, prefers) ==
    savedTheme = "dark" \/ prefers

\* savedTheme === 'dark' || (!savedTheme && prefersDark)
IsDark(savedTheme, prefers) ==
    savedTheme = "dark" \/ (Falsy(savedTheme) /\ prefers)

\* content of the theme-color meta tag after applyTheme(isDark)
ThemeColorAfter(isDark) ==
    IF metaPresent THEN (IF isDark THEN "#09090b" ELSE "#ffffff") ELSE themeColor

InitTheme ==
    /\ DirectiveIdle
    /\ ClockIdle
    /\ ContentIdle
    /\ ZoomIdle
    /\ SidebarIdle
    /\ TreeIdle
    /\ storedTheme \in ForeignThemes
    /\ prefersDark \in BOOLEAN
    /\ isDarkMode = FALSE
    /\ darkClass = FALSE
    /\ metaPresent \in BOOLEAN
    /\ themeColor = "initial"
    /\ headerLoaded = FALSE
    /\ toggledTo = NONE
    /\ themeOp = "init"

\* Header.ngOnInit, once per page load.
HeaderNgOnInit ==
    /\ ~headerLoaded
    /\ LET isDark == IsDark(storedTheme, prefersDark)
       IN /\ isDarkMode' = isDark
          /\ darkClass' = isDark
          /\ themeColor' = ThemeColorAfter(isDark)
    /\ headerLoaded' = TRUE
    /\ themeOp' = "ngOnInit"
    /\ UNCHANGED <<storedTheme, prefersDark, metaPresent, toggledTo>>

toggleDarkMode ==
    /\ headerLoaded
    /\ LET newValue == ~isDarkMode
       IN /\ isDarkMode' = newValue
          /\ darkClass' = newValue
          /\ themeColor' = ThemeColorAfter(newValue)
          /\ storedTheme' = StoredValue(newValue)
          /\ toggledTo' = IF newValue THEN "on" ELSE "off"
    /\ themeOp' = "toggleDarkMode"
    /\ UNCHANGED <<prefersDark, metaPresent, headerLoaded>>

\* The page is loaded again: the signal and the document start as served,
\* localStorage is kept.
Reload ==
    /\ isDarkMode' = FALSE
    /\ darkClass' = FALSE
    /\ themeColor' = "initial"
    /\ headerLoaded' = FALSE
    /\ themeOp' = "reload"
    /\ UNCHANGED <<storedTheme, prefersDark, metaPresent, toggledTo>>

\* The system colour scheme changes.
PreferenceChange ==
    /\ prefersDark' = ~prefersDark
    /\ themeOp' = "preference"
    /\ UNCHANGED <<storedTheme, isDarkMode, darkClass, metaPresent, themeColor,
                   headerLoaded, toggledTo>>

\* The user clears the site data.
ClearStorage ==
    /\ storedTheme # NONE
    /\ storedTheme' = NONE
    /\ toggledTo' = NONE
    /\ themeOp' = "clear"
    /\ UNCHANGED <<prefersDark, isDarkMode, darkClass, metaPresent, themeColor,
                   headerLoaded>>

NextTheme ==
    \/ HeaderNgOnInit /\ UNCHANGED <<directiveVars, clockVars, contentVars, zoomVars, sidebarVars, treeVars>>
    \/ toggleDarkMode /\ UNCHANGED <<directiveVars, clockVars, contentVars, zoomVars, sidebarVars, treeVars>>
    \/ Reload /\ UNCHANGED <<directiveVars, clockVars, contentVars, zoomVars, sidebarVars, treeVars>>
    \/ PreferenceChange /\ UNCHANGED <<directiveVars, clockVars, contentVars, zoomVars, sidebarVars, treeVars>>
    \/ ClearStorage /\ UNCHANGED <<directiveVars, clockVars, contentVars, zoomVars, sidebarVars, treeVars>>

SpecTheme == InitTheme /\ [][NextTheme]_vars

----------------------------------------------------------------------------
(* The scroll-spy Sidebar *)

\* The elements with an id, in document order: section 2 lies inside section
\* 1, and nothing with an id lies below section 3.
Sections ==
    << [id |-> "1", offsetTop |-> 0, offsetHeight |-> 300],
       [id |-> "2", offsetTop |-> 100, offsetHeight |-> 100],
       [id |-> "3", offsetTop |-> 300, offsetHeight |-> 200] >>

SidebarScrollYs == {0, 50, 150, 250, 450}

\* At most this many animation frames requested and not yet run.
MaxFrames == 2

\* sections.forEach: the last section that contains scrollPosition wins.
RECURSIVE CurrentSectionFrom(_, _, _)
CurrentSectionFrom(sections, currentSection, scrollPosition) ==
    IF sections = << >> THEN currentSection
    ELSE LET element == Head(sections)
             sectionTop == element.offsetTop
             sectionHeight == element.offsetHeight
         IN CurrentSectionFrom(Tail(sections),
                IF scrollPosition >= sectionTop /\ scrollPosition < sectionTop + sectionHeight
                THEN element.id ELSE currentSection,
                scrollPosition)

CurrentSection(scrollY) == CurrentSectionFrom(Sections, "", scrollY + 100)

\* handleScroll(scrollY)
handleScroll(scrollY) ==
    LET currentSection == CurrentSection(scrollY)
    IN /\ processed' = <<scrollY>>
       /\ IF currentSection # "" /\ activeSection # currentSection
          THEN /\ activeSection' = currentSection
               /\ sectionSet' = << <<activeSection, currentSection>> >>
          ELSE /\ activeSection' = activeSection
               /\ sectionSet' = << >>

\* Variant: a frame is requested on every scroll event.
NeedsFrameAlways(isTicking) == TRUE

\* if (!this.ticking)
NeedsFrame(isTicking) == ~isTicking

InitSidebar ==
    /\ DirectiveIdle
    /\ ClockIdle
    /\ ContentIdle
    /\ ZoomIdle
    /\ ThemeIdle
    /\ TreeIdle
    /\ sidebarListening = FALSE
    /\ rafSet = FALSE
    /\ framesPending = 0
    /\ lastKnownScrollPosition = 0
    /\ ticking = FALSE
    /\ activeSection = ""
    /\ windowScrollY \in SidebarScrollYs
    /\ sidebarDestroyed = FALSE
    /\ processed = << >>
    /\ sectionSet = << >>
    /\ sidebarOp = "init"

\* Sidebar.ngOnInit: registers the listener and runs the initial check.
SidebarNgOnInit ==
    /\ ~sidebarListening
    /\ ~sidebarDestroyed
    /\ sidebarListening' = TRUE
    /\ handleScroll(windowScrollY)
    /\ sidebarOp' = "ngOnInit"
    /\ UNCHANGED <<rafSet, framesPending, lastKnownScrollPosition, ticking,
                   windowScrollY, sidebarDestroyed>>

\* A scroll event at offset y; the listener runs if it is registered.
SidebarScroll(y) ==
    /\ (sidebarListening /\ NeedsFrame(ticking)) => framesPending < MaxFrames
    /\ windowScrollY' = y
    /\ IF sidebarListening
       THEN /\ lastKnownScrollPosition' = y
            /\ IF NeedsFrame(ticking)
               THEN /\ rafSet' = TRUE
                    /\ framesPending' = framesPending + 1
                    /\ ticking' = TRUE
               ELSE UNCHANGED <<rafSet, framesPending, ticking>>
       ELSE UNCHANGED <<lastKnownScrollPosition, rafSet, framesPending, ticking>>
    /\ processed' = << >>
    /\ sectionSet' = << >>
    /\ sidebarOp' = "scroll"
    /\ UNCHANGED <<sidebarListening, activeSection, sidebarDestroyed>>

\* The browser runs a requested animation-frame callback.
AnimationFrame ==
    /\ framesPending > 0
    /\ handleScroll(lastKnownScrollPosition)
    /\ ticking' = FALSE
    /\ framesPending' = framesPending - 1
    /\ sidebarOp' = "frame"
    /\ UNCHANGED <<sidebarListening, rafSet, lastKnownScrollPosition, windowScrollY,
                   sidebarDestroyed>>

\* Sidebar.ngOnDestroy: removes the listener and cancels the frame named by
\* rafId, the one requested last.
SidebarNgOnDestroy ==
    /\ sidebarListening
    /\ sidebarListening' = FALSE
    /\ framesPending' = IF rafSet /\ framesPending > 0
                        THEN framesPending - 1 ELSE framesPending
    /\ sidebarDestroyed' = TRUE
    /\ processed' = << >>
    /\ sectionSet' = << >>
    /\ sidebarOp' = "ngOnDestroy"
    /\ UNCHANGED <<rafSet, lastKnownScrollPosition, ticking, activeSection, windowScrollY>>

NextSidebar ==
    \/ SidebarNgOnInit /\ UNCHANGED <<directiveVars, clockVars, contentVars, zoomVars, themeVars, treeVars>>
    \/ (\E y \in SidebarScrollYs : SidebarScroll(y)) /\ UNCHANGED <<directiveVars, clockVars, contentVars, zoomVars, themeVars, treeVars>>
    \/ AnimationFrame /\ UNCHANGED <<directiveVars, clockVars, contentVars, zoomVars, themeVars, treeVars>>
    \/ SidebarNgOnDestroy /\ UNCHANGED <<directiveVars, clockVars, contentVars, zoomVars, themeVars, treeVars>>

SpecSidebar == InitSidebar /\ [][NextSidebar]_vars

----------------------------------------------------------------------------
(* The reassign-ids script.  A tree is a function from the paths of its items
   (the child indices from the top-level array down) to the items' ids. *)

\* Trees of at most this many items, nested ones counted.
MaxItems == 5

\* The ids the items carry in the file: gaps and duplicates occur.
OldIds == {2, 7}

\* item.items.length of the item at path prefix; items.length for the empty path
Length(tree, prefix) ==
    Cardinality({path \in DOMAIN tree :
                    /\ Len(path) = Len(prefix) + 1
                    /\ SubSeq(path, 1, Len(prefix)) = prefix})

\* The path sets of the trees of at most n items: each is a smaller one with
\* one more last child under some item or at the top level.
RECURSIVE ShapesOf(_)
ShapesOf(n) ==
    IF n = 0 THEN {{}}
    ELSE LET smaller == ShapesOf(n - 1)
             ChildCount(shape, prefix) ==
                 Cardinality({path \in shape :
                                 /\ Len(path) = Len(prefix) + 1
                                 /\ SubSeq(path, 1, Len(prefix)) = prefix})
         IN smaller \cup
            UNION {{shape \cup {Append(prefix, ChildCount(shape, prefix) + 1)} :
                        prefix \in shape \cup {<< >>}} : shape \in smaller}

Trees == UNION {[shape -> OldIds] : shape \in ShapesOf(MaxItems)}

\* Variant: an item is numbered after its children.
RECURSIVE reassignIdsFromChildrenFirst(_, _, _, _)
reassignIdsFromChildrenFirst(tree, prefix, k, counter) ==
    IF k > Length(tree, prefix) THEN [tree |-> tree, counter |-> counter]
    ELSE LET item == Append(prefix, k)
             below == IF Length(tree, item) > 0
                      THEN reassignIdsFromChildrenFirst(tree, item, 1, counter)
                      ELSE [tree |-> tree, counter |-> counter]
             assigned == [below.tree EXCEPT ![item] = below.counter]
         IN reassignIdsFromChildrenFirst(assigned, prefix, k + 1, below.counter + 1)

\* items.forEach from the k-th item of the array at prefix on:
\* item.id = idCounter++, then the item's own items.
RECURSIVE reassignIdsFrom(_, _, _, _)
reassignIdsFrom(tree, prefix, k, counter) ==
    IF k > Length(tree, prefix) THEN [tree |-> tree, counter |-> counter]
    ELSE LET item == Append(prefix, k)
             assigned == [tree EXCEPT ![item] = counter]
             below == IF Length(tree, item) > 0
                      THEN reassignIdsFrom(assigned, item, 1, counter + 1)
                      ELSE [tree |-> assigned, counter |-> counter + 1]
         IN reassignIdsFrom(below.tree, prefix, k + 1, below.counter)

reassignIds(tree, counter) == reassignIdsFrom(tree, << >>, 1, counter)

\* items.forEach from the k-th item on: count++, plus the count of its items.
RECURSIVE countAllItemsFrom(_, _, _)
countAllItemsFrom(tree, prefix, k) ==
    IF k > Length(tree, prefix) THEN 0
    ELSE LET item == Append(prefix, k)
         IN 1 + (IF Length(tree, item) > 0 THEN countAllItemsFrom(tree, item, 1) ELSE 0)
              + countAllItemsFrom(tree, prefix, k + 1)

countAllItems(tree) == countAllItemsFrom(tree, << >>, 1)

\* The script has read the file.
InitTree ==
    /\ DirectiveIdle
    /\ ClockIdle
    /\ ContentIdle
    /\ ZoomIdle
    /\ ThemeIdle
    /\ SidebarIdle
    /\ data \in Trees
    /\ original = data
    /\ idCounter = 1
    /\ treeOp = "init"

\* reassignIds(data)
ReassignAll ==
    /\ treeOp = "init"
    /\ LET result == reassignIds(data, idCounter)
       IN /\ data' = result.tree
          /\ idCounter' = result.counter
    /\ treeOp' = "reassignIds"
    /\ UNCHANGED original

NextTree == ReassignAll /\ UNCHANGED <<directiveVars, clockVars, contentVars, zoomVars, themeVars, sidebarVars>>

SpecTree == InitTree /\ [][NextTree]_vars

----------------------------------------------------------------------------
(* Properties *)

\* The candidates of a recomputation: configured, recorded visible, element present.
Candidates == {id \in Range(sectionIds) : id \in visibleSections /\ id \in dom}

Distance(id) == Abs(top[id] - referenceLineY)

\* Position of an id in the configured order.
IndexOf(id) == CHOOSE i \in 1..Len(sectionIds) : sectionIds[i] = id

Recomputed == op \in {"observerCallback", "scrollTimer"}

\* C1: whenever there is at least one visible candidate, computeActive returns
\* a candidate whose distance |top - referenceLineY| is minimal among all
\* candidates.
C1_ClosestToReferenceLine ==
    (op = "computeActive" /\ Candidates # {}) =>
        /\ Len(emitted) = 1
        /\ emitted[1] \in Candidates
        /\ \A c \in Candidates : Distance(emitted[1]) <= Distance(c)

\* C1 witness: tops 10, 130 and 300 all visible, and the one at 130 returned.
C1_Witness ==
    /\ op = "computeActive"
    /\ Candidates = Ids
    /\ {top[id] : id \in Ids} = {10, 130, 300}
    /\ emitted # << >>
    /\ top[emitted[1]] = 130

\* C2: among candidates at the minimal distance, the one returned is the
\* earliest in the configured id order.
C2_TieBreakByOrder ==
    (op = "computeActive" /\ emitted # << >>) =>
        \A c \in Candidates :
            Distance(c) = Distance(emitted[1]) => IndexOf(emitted[1]) <= IndexOf(c)

\* C2 witness: two candidates tie at the minimal distance with different tops,
\* and the returned one comes first in the configured order.
C2_Witness ==
    /\ op = "computeActive"
    /\ emitted # << >>
    /\ \E c \in Candidates :
          /\ c # emitted[1]
          /\ top[c] # top[emitted[1]]
          /\ Distance(c) = Distance(emitted[1])
          /\ IndexOf(emitted[1]) < IndexOf(c)

\* C3: every id emitted on activeId is, when emitted, a member of the current
\* sectionIds list and recorded in visibleSections.
C3_EmittedIsConfiguredAndVisible ==
    \A i \in 1..Len(emitted) :
        emitted[i] \in Range(sectionIds) /\ emitted[i] \in visibleSections

\* C3 witness: a geometry sample after configure, visibility and scroll events
\* emits an id while another configured id is not visible.
C3_Witness ==
    /\ op = "scrollTimer"
    /\ emitted # << >>
    /\ \E id \in Range(sectionIds) : id \notin visibleSections

\* C4: a recomputation with nothing recorded visible emits nothing.
C4_NoVisibleNoEmission ==
    (Recomputed /\ visibleSections = {}) => emitted = << >>

\* C4 witness: ids configured and observed, nothing visible, a geometry sample
\* ran and emitted nothing.
C4_Witness ==
    /\ op = "scrollTimer"
    /\ sectionIds # << >>
    /\ Range(sectionIds) \subseteq observed
    /\ visibleSections = {}
    /\ emitted = << >>

\* C5: the tracked set contains only ids of the most recently supplied id
\* list (stated for a non-empty latest list, the case of configure(A) followed
\* by configure(B)).
C5_TrackedWithinLatestIds ==
    sectionIds # << >> => visibleSections \subseteq Range(sectionIds)

\* C6: the observed set is always a subset of the latest id list (stated for a
\* non-empty latest list): nothing of an earlier configuration alone is put
\* under observation once a later configure has been called.
C6_ObservedWithinLatestIds ==
    sectionIds # << >> => observed \subseteq Range(sectionIds)

\* C7: configure with an empty id sequence leaves the tracked set, the observed
\* elements, the pending timers and the scroll listeners as they were.
C7_EmptyConfigureIsNoOp ==
    [][(op' = "effect" /\ sectionIds' = << >>) =>
          UNCHANGED <<visibleSections, observed, pendingObserve, scrollListeners,
                      scrollTimerSet, throttlePending>>]_vars

\* C7 witness: an empty configure ran while sections were observed and visible.
C7_Witness ==
    /\ op = "effect"
    /\ sectionIds = << >>
    /\ observed # {}
    /\ visibleSections # {}

\* C8: while the deferred observation start of the latest non-empty configure
\* is still pending, no element is observed and the tracked set is empty.
C8_NothingObservedBeforeDeferredStart ==
    pendingObserve # << >> => (observed = {} /\ visibleSections = {})

\* C9: observeSections observes every id of its list that has an element and
\* none that has not; a recomputation never emits an id whose element is
\* missing, and emits nothing when no candidate remains.
C9_MissingElementsSkipped ==
    /\ [][op' = "observeSections" =>
            \A id \in Range(Head(pendingObserve)) :
                /\ id \in dom => id \in observed'
                /\ (id \notin dom /\ id \notin observed) => id \notin observed']_vars
    /\ [](Recomputed =>
            /\ \A i \in 1..Len(emitted) : emitted[i] \in dom
            /\ Candidates = {} => emitted = << >>)

\* C9 witness: observation started for the latest list with one id lacking an
\* element (skipped) and another one observed.
C9_Witness ==
    /\ op = "observeSections"
    /\ pendingObserve = << >>
    /\ \E id \in Range(sectionIds) : id \notin dom /\ id \notin observed
    /\ \E id \in Range(sectionIds) : id \in dom /\ id \in observed

\* C10: every recomputation for which findClosestSection yields an id emits
\* exactly that id once, also when it was the id emitted last.
C10_EveryResultEmitted ==
    Recomputed =>
        LET activeId == findClosestSection(sectionIds, visibleSections, dom, top)
        IN emitted = IF activeId # NONE THEN <<activeId>> ELSE << >>

\* C10 witness: a geometry sample emitted the id that was emitted last.
C10_Witness ==
    /\ op = "scrollTimer"
    /\ emitted # << >>
    /\ emitted[1] = lastActive

\* C11: while scroll events keep arriving, a geometry sample still follows
\* every scroll event within the delay of the timer: no scroll event stays
\* without a sample for longer than ScrollDelayTicks.
C11_SampleWithinDelay ==
    waited <= ScrollDelayTicks

C12_NothingAfterDestroy ==
    destroyed => op \notin {"observerCallback", "scrollTimer"}

\* C13: a non-empty configure and ngOnDestroy both cancel the pending timer of
\* the scroll listener, so a timer started before the call cannot run after it.
C13_TimerCancelledOnReconfigure ==
    [][((op' = "effect" /\ sectionIds' # << >>) \/ op' = "ngOnDestroy")
          => ~throttlePending']_vars

\* C15: an IntersectionObserver callback leaves each reported id recorded as
\* visible exactly if its entry is intersecting, leaves every other id as it
\* was, and recomputes the active section from the updated set.
C15_VisibilityUpdateThenRecompute ==
    [][op' = "observerCallback" =>
          \A entries \in UNION {[S -> BOOLEAN] : S \in SUBSET observed} :
              ObserverCallback(entries) =>
                  /\ \A id \in DOMAIN entries :
                         (id \in visibleSections') <=> entries[id]
                  /\ \A id \in Ids \ DOMAIN entries :
                         (id \in visibleSections') <=> (id \in visibleSections)
                  /\ emitted' = emitActiveSection(sectionIds, visibleSections', dom, top)]_vars

\* C15 witness: a callback has left one observed id visible and another not,
\* and the id it emitted is the one that is visible.
C15_Witness ==
    /\ op = "observerCallback"
    /\ \E id \in observed : id \notin visibleSections
    /\ emitted # << >>
    /\ emitted[1] \in observed
    /\ lastActive # emitted[1]


----------------------------------------------------------------------------
(* Properties of the header-offset variant *)

HeaderCandidates == {id \in Range(sectionIds) : id \in visibleSections /\ id \in dom}

HeaderNearTop == {id \in HeaderCandidates : top[id] <= headerOffset + 50}

DistanceFromHeader(id) == Abs(top[id] - headerOffset)

\* C16 as stated: the id the header-offset variant emits minimizes |top - 100|
\* over all visible sections.
C16_ClosestToHeaderOverAllVisible ==
    (op = "computeHeaderActive" /\ emitted # << >>) =>
        \A other \in HeaderCandidates :
            DistanceFromHeader(emitted[1]) <= DistanceFromHeader(other)

\* C16 amended: when some visible section has top <= 150, the emitted id is one
\* of those and minimizes |top - 100| among them; sections further down are
\* not compared.
C16_ClosestToHeaderAmongNearTop ==
    (op = "computeHeaderActive" /\ emitted # << >> /\ HeaderNearTop # {}) =>
        /\ emitted[1] \in HeaderNearTop
        /\ \A other \in HeaderNearTop :
               DistanceFromHeader(emitted[1]) <= DistanceFromHeader(other)

\* A section below the near-top band is closer to the header offset than the
\* emitted one.
C16_Witness ==
    /\ op = "computeHeaderActive"
    /\ emitted # << >>
    /\ emitted[1] \in HeaderNearTop
    /\ \E other \in HeaderCandidates \ HeaderNearTop :
           DistanceFromHeader(other) < DistanceFromHeader(emitted[1])

\* C17: findClosestSection of the header-offset variant returns, when a visible
\* section has top <= headerOffset + 50, the one of those that minimizes
\* |top - 100|, the earliest in id order on ties; otherwise the first visible
\* section in id order; and nothing only when no visible id has an element.
C17_DocumentedAlgorithm ==
    op = "computeHeaderActive" =>
        IF HeaderCandidates = {} THEN emitted = << >>
        ELSE /\ Len(emitted) = 1
             /\ IF HeaderNearTop # {}
                THEN /\ emitted[1] \in HeaderNearTop
                     /\ \A other \in HeaderNearTop \ {emitted[1]} :
                            \/ DistanceFromHeader(emitted[1]) < DistanceFromHeader(other)
                            \/ /\ DistanceFromHeader(emitted[1]) = DistanceFromHeader(other)
                               /\ IndexOf(emitted[1]) < IndexOf(other)
                ELSE /\ emitted[1] \in HeaderCandidates
                     /\ \A other \in HeaderCandidates : IndexOf(emitted[1]) <= IndexOf(other)

\* Two near-top sections are equally close and the earlier one is emitted.
C17_Witness ==
    /\ op = "computeHeaderActive"
    /\ emitted # << >>
    /\ \E other \in HeaderNearTop :
           /\ other # emitted[1]
           /\ DistanceFromHeader(other) = DistanceFromHeader(emitted[1])
           /\ top[other] # top[emitted[1]]

\* No near-top section: the first visible one is emitted though another is closer.
C17_FallbackReached ==
    /\ op = "computeHeaderActive"
    /\ emitted # << >>
    /\ HeaderNearTop = {}
    /\ \E other \in HeaderCandidates :
           DistanceFromHeader(other) < DistanceFromHeader(emitted[1])

\* C18: the header-offset variant never registers a scroll listener and never
\* starts a scroll timer, and activeId is emitted only by the
\* IntersectionObserver callback.
C18_NoScrollListeners ==
    /\ scrollListeners = 0
    /\ ~throttlePending
    /\ emitted # << >> => op = "observerCallback"

\* A scroll event has moved another section closest to the header and nothing
\* is emitted.
C18_Witness ==
    /\ op = "scroll"
    /\ lastActive # NONE
    /\ emitted = << >>
    /\ emitActiveSectionHeader(sectionIds, visibleSections, dom, top) # << >>
    /\ emitActiveSectionHeader(sectionIds, visibleSections, dom, top)[1] # lastActive


----------------------------------------------------------------------------
(* Properties of the Content component *)

\* C19: loadTextFile issues at most one HTTP request per file path over the
\* life of the component, also when the path occurs several times in the item
\* tree or the items input changes before the response arrives.
C19_AtMostOneRequestPerPath ==
    \A path \in Paths : requests[path] <= 1

\* C20: a reset timer clears only the indicator of the copy that started it,
\* and only once that indicator has been shown for the full 5000 ms.
C20_IndicatorKeptForFullDelay ==
    \A clear \in Range(lastClear) :
        /\ clear.timer = clear.indicator
        /\ clear.shownFor >= ResetDelayTicks


\* C21: after openImageZoom(path), zoomedImage stays equal to path and
\* isClosingZoom stays false until closeImageZoom is next called, whatever the
\* 200 ms timer of an earlier closeImageZoom does.
C21_ZoomKeptUntilClose ==
    zoomOpened # NONE => (zoomedImage = zoomOpened /\ ~isClosingZoom)


----------------------------------------------------------------------------
(* Properties of the Header component *)

----------------------------------------------------------------------------
(* Properties of the scroll-spy Sidebar *)

\* What C23 says of the frame callback, of activeSection and of disposal: the
\* callback processes the scroll position recorded last, which is that of the
\* latest scroll event; activeSection is only set to a non-empty id other
\* than its value; handleScroll does not run once ngOnDestroy has.
SidebarProcessing ==
    /\ framesPending <= 1
    /\ sidebarOp = "frame" =>
           /\ processed = <<lastKnownScrollPosition>>
           /\ lastKnownScrollPosition = windowScrollY
    /\ \A set \in Range(sectionSet) : set[2] # "" /\ set[2] # set[1]
    /\ sidebarDestroyed => (processed = << >> /\ sidebarOp # "frame")

\* C23 as stated: at most one animation-frame callback is pending, ticking is
\* true exactly while one is pending, the callback processes the most recent
\* scroll position, activeSection is only set to a non-empty different id, and
\* handleScroll never runs after ngOnDestroy.
C23_TickingExactlyWhilePending ==
    /\ SidebarProcessing
    /\ ticking <=> framesPending = 1

\* C23 amended: as stated, but ticking is true exactly while a callback is
\* pending only as long as the Sidebar is alive; a callback cancelled by
\* ngOnDestroy leaves ticking true.
C23_TickingWhilePending ==
    /\ SidebarProcessing
    /\ framesPending = 1 => ticking
    /\ ~sidebarDestroyed => (ticking <=> framesPending = 1)

\* Two scroll events shared one frame, whose callback set another section
\* from the later position.
C23_Witness ==
    /\ sidebarOp = "frame"
    /\ ~ticking
    /\ framesPending = 0
    /\ sectionSet # << >>
    /\ sectionSet[1][1] # ""
    /\ activeSection = CurrentSection(windowScrollY)

\* ngOnDestroy has cancelled a pending callback.
C23_CancelledFrameReached ==
    /\ sidebarDestroyed
    /\ ticking
    /\ framesPending = 0


----------------------------------------------------------------------------
(* Properties of the reassign-ids script *)

\* first comes before second in depth-first pre-order: it is an ancestor of
\* second, or lies in an earlier sibling's subtree where the two paths part.
PreOrderBefore(first, second) ==
    \/ /\ Len(first) < Len(second)
       /\ SubSeq(second, 1, Len(first)) = first
    \/ \E i \in 1..Len(first) :
           /\ i <= Len(second)
           /\ SubSeq(first, 1, i - 1) = SubSeq(second, 1, i - 1)
           /\ first[i] < second[i]

\* C24: reassignIds over a tree of N items, nested ones counted, leaves the
\* shape and the item count as they were and assigns pairwise distinct ids,
\* exactly 1..N, in depth-first pre-order.
C24_IdsInPreOrder ==
    treeOp = "reassignIds" =>
        LET N == countAllItems(original)
        IN /\ DOMAIN data = DOMAIN original
           /\ N = Cardinality(DOMAIN original)
           /\ countAllItems(data) = N
           /\ {data[path] : path \in DOMAIN data} = 1..N
           /\ \A first, second \in DOMAIN data :
                  first # second => data[first] # data[second]
           /\ \A first, second \in DOMAIN data :
                  PreOrderBefore(first, second) => data[first] < data[second]
           /\ idCounter = N + 1

\* A tree with a grandchild under the first top-level item and a second
\* top-level item, whose old ids repeated.
C24_Witness ==
    /\ treeOp = "reassignIds"
    /\ <<1, 1, 1>> \in DOMAIN data
    /\ <<2>> \in DOMAIN data
    /\ original[<<1>>] = original[<<2>>]
    /\ data[<<2>>] > data[<<1, 1, 1>>]

====





